---- MODULE Spec2Model ----
(***************************************************************************)
(* Model of gentranslate: the nested-JSON accessor of TranslationJson      *)
(* (flatten, diff, setValue, getValue), the batching of                    *)
(* LLMTranslation.translate and Batch.create, the retry wrapper            *)
(* SafeAsync.run, and the orchestrator patchTranslations / translatePatch. *)
(*                                                                         *)
(* A JavaScript string that is split on '.' is a sequence of characters;   *)
(* a string that is only stored and compared (a leaf value) is a TLA+      *)
(* string.  A JavaScript object is the sequence of its own properties in   *)
(* the order Object.entries lists them: integer-like names first, in       *)
(* ascending numeric order, then the other names in insertion order.       *)
(***************************************************************************)
EXTENDS Integers, Sequences, FiniteSets, TLC

(***************************************************************************)
(* Strings as character sequences                                          *)
(***************************************************************************)

Dot == "."

Digits == {"0", "1", "2", "3", "4", "5", "6", "7", "8", "9"}

DigitVal(c) ==
    CASE c = "0" -> 0 [] c = "1" -> 1 [] c = "2" -> 2 [] c = "3" -> 3
      [] c = "4" -> 4 [] c = "5" -> 5 [] c = "6" -> 6 [] c = "7" -> 7
      [] c = "8" -> 8 [] OTHER -> 9

RECURSIVE NumVal(_)
NumVal(s) ==
    IF s = <<>> THEN 0
    ELSE 10 * NumVal(SubSeq(s, 1, Len(s) - 1)) + DigitVal(s[Len(s)])

\* A property name that is a canonical array index ("0", "7", "12", not "01"):
\* Object.entries lists these first, in ascending numeric order.
IsArrayIndex(s) ==
    /\ Len(s) >= 1
    /\ Len(s) <= 9
    /\ \A i \in 1..Len(s) : s[i] \in Digits
    /\ (Len(s) = 1 \/ s[1] # "0")

\* String.prototype.split('.'): the pieces between the dots, empty pieces kept.
RECURSIVE SplitFrom(_, _, _)
SplitFrom(s, i, cur) ==
    IF i > Len(s) THEN <<cur>>
    ELSE IF s[i] = Dot THEN <<cur>> \o SplitFrom(s, i + 1, <<>>)
    ELSE SplitFrom(s, i + 1, Append(cur, s[i]))

Split(s) == SplitFrom(s, 1, <<>>)

\* Array.prototype.join('.')
RECURSIVE Join(_)
Join(parts) ==
    IF parts = <<>> THEN <<>>
    ELSE IF Len(parts) = 1 THEN parts[1]
    ELSE parts[1] \o <<Dot>> \o Join(Tail(parts))

(***************************************************************************)
(* JSON values                                                             *)
(***************************************************************************)

Str(v) == [t |-> "str", v |-> v, kids |-> <<>>]

Num == [t |-> "num", v |-> "", kids |-> <<>>]

Bool == [t |-> "bool", v |-> "", kids |-> <<>>]

NullNode == [t |-> "null", v |-> "", kids |-> <<>>]

\* an array, its elements as the properties "0", "1", ...
ArrOf(kids) == [t |-> "arr", v |-> "", kids |-> kids]

Arr == [t |-> "arr", v |-> "", kids |-> <<>>]

Obj(kids) == [t |-> "obj", v |-> "", kids |-> kids]

Prop(k, n) == [k |-> k, n |-> n]

EmptyObj == Obj(<<>>)

\* typeof value === 'string'
IsString(n) == n.t = "str"

\* typeof value === 'object' (arrays and null are objects too)
IsTypeofObject(n) == n.t \in {"obj", "arr", "null"}

\* what a property access or an `in` test on null or undefined throws
TypeError == [t |-> "TypeError", v |-> "", kids |-> <<>>]

\* key in obj
HasProp(kids, k) == \E i \in 1..Len(kids) : kids[i].k = k

IndexOfProp(kids, k) == CHOOSE i \in 1..Len(kids) : kids[i].k = k

\* obj[k], for a property the object has
GetProp(kids, k) == kids[IndexOfProp(kids, k)].n

\* Where a new property named k goes in the own-property order.
InsertAt(kids, k) ==
    IF IsArrayIndex(k)
    THEN Cardinality({i \in 1..Len(kids) :
                        IsArrayIndex(kids[i].k) /\ NumVal(kids[i].k) < NumVal(k)}) + 1
    ELSE Len(kids) + 1

\* obj[k] = n: an existing property keeps its place, a new one is added.
PutProp(kids, k, n) ==
    IF HasProp(kids, k)
    THEN [kids EXCEPT ![IndexOfProp(kids, k)] = Prop(k, n)]
    ELSE LET p == InsertAt(kids, k)
         IN SubSeq(kids, 1, p - 1) \o <<Prop(k, n)>> \o SubSeq(kids, p, Len(kids))

(***************************************************************************)
(* Loops over a list: the body is applied to each element in list order,    *)
(* threading the state the loop updates.  The list is walked half by half,  *)
(* the state after the first half being computed before the second half    *)
(* starts, so that a long list does not nest the evaluation deeply.         *)
(***************************************************************************)

RECURSIVE ForRange(_, _, _, _, _)
ForRange(Body(_, _), acc, list, lo, hi) ==
    IF lo > hi THEN acc
    ELSE IF lo = hi THEN Body(acc, list[lo])
    ELSE LET mid == (lo + hi) \div 2
             half == ForRange(Body, acc, list, lo, mid)
         IN IF half = half THEN ForRange(Body, half, list, mid + 1, hi) ELSE acc

ForEach(Body(_, _), acc, list) == ForRange(Body, acc, list, 1, Len(list))

(***************************************************************************)
(* Map<string, string>: entries in insertion order, keys unique            *)
(***************************************************************************)

KeyValue(k, v) == [key |-> k, value |-> v]

MapHas(m, k) == \E i \in 1..Len(m) : m[i].key = k

MapIndex(m, k) == CHOOSE i \in 1..Len(m) : m[i].key = k

MapGet(m, k) == m[MapIndex(m, k)].value

MapSet(m, k, v) ==
    IF MapHas(m, k) THEN [m EXCEPT ![MapIndex(m, k)] = KeyValue(k, v)]
    ELSE Append(m, KeyValue(k, v))

(***************************************************************************)
(* TranslationJson.flatten / flattenJson                                   *)
(***************************************************************************)

FullKey(parentKeys, key) ==
    IF Len(parentKeys) > 0 THEN Join(parentKeys) \o <<Dot>> \o key ELSE key

\* for (const key in json): one visit per own property, in property order
RECURSIVE FlattenJson(_, _, _)
FlattenJson(kids, parentKeys, result) ==
    LET Visit(r, e) ==
            IF e.n.t = "obj"
            THEN FlattenJson(e.n.kids, Append(parentKeys, e.k), r)
            ELSE IF IsString(e.n)
            THEN MapSet(r, FullKey(parentKeys, e.k), e.n.v)
            ELSE r
    IN ForEach(Visit, result, kids)

Flatten(json) == FlattenJson(json.kids, <<>>, <<>>)

\* flattenJson throws when a value is null: null is an object that is no array,
\* so the loop recurses into it and Object.entries(null) throws
RECURSIVE FlattenJsonThrows(_)
FlattenJsonThrows(kids) ==
    \E i \in 1..Len(kids) :
        \/ kids[i].n = NullNode
        \/ kids[i].n.t = "obj" /\ FlattenJsonThrows(kids[i].n.kids)

FlattenThrows(json) == FlattenJsonThrows(json.kids)

(***************************************************************************)
(* TranslationJson.diff                                                    *)
(***************************************************************************)

\* for (const [selfKey, selfValue] of selfMap.entries())
DiffSelfLoop(selfMap, otherMap, translations) ==
    LET Visit(r, e) ==
            IF ~MapHas(otherMap, e.key) \/ MapGet(otherMap, e.key) # e.value
            THEN Append(r, KeyValue(e.key, e.value))
            ELSE r
    IN ForEach(Visit, translations, selfMap)

\* for (const [otherKey, otherValue] of otherMap.entries())
DiffOtherLoop(selfMap, otherMap, translations) ==
    LET Visit(r, e) == IF ~MapHas(selfMap, e.key) THEN Append(r, e) ELSE r
    IN ForEach(Visit, translations, otherMap)

\* diff that carries the patched side's text for a changed key
DiffPatchedSourced(self, other) ==
    LET selfMap == Flatten(self)
        otherMap == Flatten(other)
        swapped == [i \in 1..Len(selfMap) |->
                      IF MapHas(otherMap, selfMap[i].key)
                      THEN KeyValue(selfMap[i].key, MapGet(otherMap, selfMap[i].key))
                      ELSE selfMap[i]]
        changed == DiffSelfLoop(selfMap, otherMap, <<>>)
    IN DiffOtherLoop(selfMap, otherMap,
           [i \in 1..Len(changed) |-> swapped[MapIndex(selfMap, changed[i].key)]])

Diff(self, other) ==
    LET selfMap == Flatten(self)
        otherMap == Flatten(other)
    IN DiffOtherLoop(selfMap, otherMap, DiffSelfLoop(selfMap, otherMap, <<>>))

(***************************************************************************)
(* TranslationJson.isFlat / setValue / getValue                            *)
(***************************************************************************)

IsFlat(json) == \A i \in 1..Len(json.kids) : IsString(json.kids[i].n)

\* setJsonValue on a mapping: the properties after the call.
RECURSIVE SetJsonValue(_, _, _)
SetJsonValue(kids, keys, value) ==
    IF Len(keys) = 0 THEN kids
    ELSE IF Len(keys) = 1 THEN PutProp(kids, keys[1], value)
    ELSE LET firstKey == Head(keys)
             fresh == ~HasProp(kids, firstKey)
                      \/ ~IsTypeofObject(GetProp(kids, firstKey))
             kids1 == IF fresh THEN PutProp(kids, firstKey, EmptyObj) ELSE kids
             child == GetProp(kids1, firstKey)
         IN PutProp(kids1, firstKey,
                    [child EXCEPT !.kids = SetJsonValue(child.kids, Tail(keys), value)])

\* setValue without the flat-tree shortcut (always splits the key on '.')
SetValueAlwaysSplit(json, key, value) ==
    Obj(SetJsonValue(json.kids, Split(key), Str(value)))

\* setJsonValue throws when the descent reaches null: null passes the typeof
\* test, is not replaced, and is then indexed
RECURSIVE SetJsonValueThrows(_, _)
SetJsonValueThrows(kids, keys) ==
    /\ Len(keys) >= 2
    /\ HasProp(kids, Head(keys))
    /\ IsTypeofObject(GetProp(kids, Head(keys)))
    /\ \/ GetProp(kids, Head(keys)) = NullNode
       \/ SetJsonValueThrows(GetProp(kids, Head(keys)).kids, Tail(keys))

\* setValue(key, value): the json after the call, or TypeError when it throws
\* (the json is then as it was)
SetValue(json, key, value) ==
    IF IsFlat(json) THEN Obj(PutProp(json.kids, key, Str(value)))
    ELSE IF SetJsonValueThrows(json.kids, Split(key)) THEN TypeError
    ELSE Obj(SetJsonValue(json.kids, Split(key), Str(value)))

\* getJsonValue: the string at the path, or Undefined; TypeError when the
\* descent reaches null, which passes the typeof test and is then indexed
Undefined == [t |-> "undefined", v |-> "", kids |-> <<>>]

RECURSIVE GetJsonValue(_, _)
GetJsonValue(kids, keys) ==
    IF Len(keys) = 0 THEN Undefined
    ELSE IF Len(keys) = 1
    THEN IF HasProp(kids, keys[1]) /\ IsString(GetProp(kids, keys[1]))
         THEN GetProp(kids, keys[1])
         ELSE Undefined
    ELSE IF ~HasProp(kids, Head(keys)) \/ ~IsTypeofObject(GetProp(kids, Head(keys)))
    THEN Undefined
    ELSE IF GetProp(kids, Head(keys)) = NullNode
    THEN TypeError
    ELSE GetJsonValue(GetProp(kids, Head(keys)).kids, Tail(keys))

\* getValue(key): the TranslationKeyValue returned ('' when there is no string),
\* or TypeError when the call throws
GetValue(json, key) ==
    IF IsFlat(json)
    THEN IF HasProp(json.kids, key) /\ IsString(GetProp(json.kids, key))
         THEN KeyValue(key, GetProp(json.kids, key).v)
         ELSE KeyValue(key, "")
    ELSE LET value == GetJsonValue(json.kids, Split(key))
         IN IF value = TypeError THEN TypeError
            ELSE IF value = Undefined THEN KeyValue(key, "")
            ELSE KeyValue(key, value.v)

(***************************************************************************)
(* TranslationJsonFile (the accessor without the flat shortcut)            *)
(***************************************************************************)

\* resolve: whatever is at the path (a string, an object, any other value), or
\* Undefined; TypeError when the descent reaches null
RECURSIVE LegacyResolve(_, _)
LegacyResolve(kids, keys) ==
    IF Len(keys) = 0 THEN Undefined
    ELSE IF Len(keys) = 1
    THEN IF HasProp(kids, keys[1]) THEN GetProp(kids, keys[1]) ELSE Undefined
    ELSE IF ~HasProp(kids, Head(keys)) \/ ~IsTypeofObject(GetProp(kids, Head(keys)))
    THEN Undefined
    ELSE IF GetProp(kids, Head(keys)) = NullNode
    THEN TypeError
    ELSE LegacyResolve(GetProp(kids, Head(keys)).kids, Tail(keys))

\* TranslationJsonFile.getValue(key): the value resolve returns
LegacyGetValue(value, key) == LegacyResolve(value.kids, Split(key))

\* TranslationJsonFile.setValue(key, value): the tree after the call, or
\* TypeError when set throws
LegacySetValue(value, key, text) ==
    IF SetJsonValueThrows(value.kids, Split(key)) THEN TypeError
    ELSE Obj(SetJsonValue(value.kids, Split(key), Str(text)))

(***************************************************************************)
(* Batching: the slicing of LLMTranslation.translate, and Batch.create     *)
(***************************************************************************)

Min(x, y) == IF x < y THEN x ELSE y

\* Math.ceil(x / y) for integers x >= 0, y >= 1
Ceil(x, y) == IF x % y = 0 THEN x \div y ELSE (x \div y) + 1

\* Array.prototype.slice(start, end), zero-based, end excluded and clamped
Slice(s, start, end) == SubSeq(s, start + 1, Min(end, Len(s)))

\* slicing that rounds the number of batches down (drops a short last batch)
TranslateBatchesFloor(translations, size) ==
    [i \in 1..(Len(translations) \div size) |->
        Slice(translations, (i - 1) * size, i * size)]

\* Array.from({length: ceil(n / size)}).map((_, i) => slice(i*size, (i+1)*size))
TranslateBatches(translations, size) ==
    [i \in 1..Ceil(Len(translations), size) |->
        Slice(translations, (i - 1) * size, i * size)]

\* for (let i = 0; i < items.length; i += batchSize) batch.push(items.slice(i, i + batchSize))
RECURSIVE BatchCreateLoop(_, _, _, _)
BatchCreateLoop(acc, list, i, size) ==
    IF i < Len(list)
    THEN BatchCreateLoop(Append(acc, Slice(list, i, i + size)), list, i + size, size)
    ELSE acc

BatchCreate(acc, list, size) == BatchCreateLoop(acc, list, 0, size)

(***************************************************************************)
(* SafeAsync: one instance, and the steps of run()                         *)
(***************************************************************************)

Null == "null"

DefaultRetries == 3

RECURSIVE Pow2(_)
Pow2(n) == IF n = 0 THEN 1 ELSE 2 * Pow2(n - 1)

\* new SafeAsync(fn, retries)
NewSafeAsync(n) ==
    [retries |-> n, i |-> 0, errors |-> <<>>, st |-> "new",
     outcome |-> [result |-> Null, errors |-> <<>>],
     calls |-> 0, sleeps |-> <<>>]

\* run() up to its first await: the loop is entered and fn is invoked, or the
\* loop is skipped and run returns the null outcome.
SaRun(sa) ==
    IF sa.i < sa.retries
    THEN [sa EXCEPT !.st = "calling", !.calls = @ + 1]
    ELSE [sa EXCEPT !.st = "returned",
                    !.outcome = [result |-> Null, errors |-> sa.errors]]

\* fn() resolved with v: return { result: v, errors: [] }
SaResolved(sa, v) ==
    [sa EXCEPT !.st = "returned", !.outcome = [result |-> v, errors |-> <<>>]]

\* the catch block that sleeps after every failure, the last one included
SaRejectedAlwaysSleeps(sa, e) ==
    [sa EXCEPT !.errors = Append(@, e),
               !.st = "sleeping",
               !.sleeps = Append(@, Pow2(sa.i) * 1000)]

\* the catch block that rethrows the last error instead of breaking
SaRejectedRethrows(sa, e) ==
    IF sa.i = sa.retries - 1
    THEN [sa EXCEPT !.errors = Append(@, e), !.st = "threw"]
    ELSE [sa EXCEPT !.errors = Append(@, e),
                    !.st = "sleeping",
                    !.sleeps = Append(@, Pow2(sa.i) * 1000)]

\* fn() rejected with e: the catch block, up to the sleep or the break
SaRejected(sa, e) ==
    IF sa.i = sa.retries - 1
    THEN [sa EXCEPT !.errors = Append(@, e),
                    !.st = "returned",
                    !.outcome = [result |-> Null, errors |-> Append(sa.errors, e)]]
    ELSE [sa EXCEPT !.errors = Append(@, e),
                    !.st = "sleeping",
                    !.sleeps = Append(@, Pow2(sa.i) * 1000)]

\* the backoff timer fired: i++, and the loop test
SaWoken(sa) == SaRun([sa EXCEPT !.i = @ + 1])

(***************************************************************************)
(* File names and the language registry                                    *)
(***************************************************************************)

Slash == "/"

DotJson == <<".", "j", "s", "o", "n">>

\* String.prototype.endsWith
EndsWith(s, suffix) ==
    /\ Len(s) >= Len(suffix)
    /\ SubSeq(s, Len(s) - Len(suffix) + 1, Len(s)) = suffix

\* String.prototype.replace(pattern, ''): the first occurrence removed
StartsAt(s, pat, i) == i + Len(pat) - 1 <= Len(s) /\ SubSeq(s, i, i + Len(pat) - 1) = pat

RemoveFirst(s, pat) ==
    IF \E i \in 1..Len(s) : StartsAt(s, pat, i)
    THEN LET i == CHOOSE i \in 1..Len(s) :
                    StartsAt(s, pat, i) /\ \A j \in 1..(i - 1) : ~StartsAt(s, pat, j)
         IN SubSeq(s, 1, i - 1) \o SubSeq(s, i + Len(pat), Len(s))
    ELSE s

\* path.split('/').pop()
RECURSIVE LastPiece(_, _)
LastPiece(s, sep) ==
    IF \E i \in 1..Len(s) : s[i] = sep
    THEN LastPiece(SubSeq(s, (CHOOSE i \in 1..Len(s) : s[i] = sep) + 1, Len(s)), sep)
    ELSE s

\* Codes of the registry's table (a part of it: every code a modelled file
\* name can carry is listed here exactly when the table lists it).
LanguageEntries ==
    {<<"a", "f">>, <<"a", "k">>, <<"s", "q">>, <<"a", "m">>, <<"a", "r">>,
     <<"h", "y">>, <<"a", "s">>, <<"a", "y">>, <<"a", "z">>, <<"b", "m">>,
     <<"e", "u">>, <<"b", "e">>, <<"f", "r">>, <<"d", "e">>, <<"i", "d">>,
     <<"x", "h">>}

\* Language.getLanguageByCode(code) is defined
HasLanguage(code) == code \in LanguageEntries

\* getTranslationFilesFromPath: the paths of the folder's *.json entries
GetTranslationFilesFromPath(path, listing) ==
    LET keep(n) == EndsWith(n, DotJson)
        names == SelectSeq(listing, keep)
    IN [i \in 1..Len(names) |-> path \o <<Slash>> \o names[i]]

\* getLanguageCodeByTranslationJson: the code the file's path gives
CodeOfPath(path) == RemoveFirst(LastPiece(path, Slash), DotJson)

\* ... and whether it resolves to a language
ResolvesLanguage(path) ==
    /\ LastPiece(path, Slash) # <<>>
    /\ HasLanguage(CodeOfPath(path))

(***************************************************************************)
(* translatePatch: the window of per-file tasks                            *)
(***************************************************************************)

DefaultWindow == 10

DefaultBatchSize == 50

\* a window test that never waits
WindowNeverFull(queue, size) == FALSE

\* queue.length % batchSize === 0 && queue.length > 0
WindowFull(queue, size) == Len(queue) % size = 0 /\ Len(queue) > 0

(***************************************************************************)
(* LLMTranslation.processTranslations: the output for one answered batch   *)
(***************************************************************************)

\* a mapping that keeps only the entries the response holds a string for
ProcessResponseAnsweredOnly(translations, result) ==
    LET all == [i \in 1..Len(translations) |-> i]
        has(i) == result[i].has
        kept == SelectSeq(all, has)
    IN [j \in 1..Len(kept) |-> KeyValue(translations[kept[j]].key, result[kept[j]].s)]

\* translations.map((t, i) => new TranslationKeyValue(t.key, result[String(i)] ?? t.value))
ProcessResponse(translations, result) ==
    [i \in 1..Len(translations) |->
        KeyValue(translations[i].key,
                 IF result[i].has THEN result[i].s ELSE translations[i].value)]

\* for (const translated of translates) translation.setValue(translated.key, translated.value)
SetValues(json, translates) ==
    LET Visit(tree, translated) == SetValue(tree, translated.key, translated.value)
    IN ForEach(Visit, json, translates)

(***************************************************************************)
(* getTranslationJsonFromFiles: parse the files in windows of ten          *)
(***************************************************************************)

\* new TranslationJson(file).parse(), settled
ParseFile(path, corruptNames, content) ==
    IF LastPiece(path, Slash) \in corruptNames
    THEN [status |-> "rejected", value |-> [path |-> path, json |-> EmptyObj]]
    ELSE [status |-> "fulfilled", value |-> [path |-> path, json |-> content]]

\* the loop without the flush of the files still queued when it ends
ParseLoopWithoutFlush(files, corruptNames, content) ==
    LET Visit(r, file) ==
            LET isMaxConcurrency == Len(r.queue) % 10 = 0 /\ Len(r.queue) > 0
            IN [result |-> IF isMaxConcurrency THEN Append(r.result, r.queue)
                           ELSE r.result,
                queue |-> Append(IF isMaxConcurrency THEN <<>> ELSE r.queue,
                                 ParseFile(file, corruptNames, content))]
    IN ForEach(Visit, [result |-> <<>>, queue |-> <<>>], files).result

\* for (const file of files), and the flush after the loop
ParseLoop(files, corruptNames, content) ==
    LET Visit(r, file) ==
            LET isMaxConcurrency == Len(r.queue) % 10 = 0 /\ Len(r.queue) > 0
                result == IF isMaxConcurrency THEN Append(r.result, r.queue)
                          ELSE r.result
                queue == IF isMaxConcurrency THEN <<>> ELSE r.queue
            IN [result |-> result,
                queue |-> Append(queue, ParseFile(file, corruptNames, content))]
        end == ForEach(Visit, [result |-> <<>>, queue |-> <<>>], files)
    IN IF Len(end.queue) > 0 THEN Append(end.result, end.queue) ELSE end.result

RECURSIVE FlatMapFulfilled(_)
FlatMapFulfilled(result) ==
    IF result = <<>> THEN <<>>
    ELSE LET fulfilled(r) == r.status = "fulfilled"
             kept == SelectSeq(Head(result), fulfilled)
         IN [i \in 1..Len(kept) |-> kept[i].value] \o FlatMapFulfilled(Tail(result))

GetTranslationJsonFromFiles(files, corruptNames, content) ==
    FlatMapFulfilled(ParseLoop(files, corruptNames, content))

\* translations.filter(language && includeLanguages.includes(language.code)),
\* applied only when includeLanguages is not empty; the result lists the kept
\* objects by their position among the loaded ones
FilterByLanguages(objects, include) ==
    LET all == [i \in 1..Len(objects) |-> i]
        keep(i) == /\ ResolvesLanguage(objects[i].path)
                   /\ CodeOfPath(objects[i].path) \in include
    IN IF include # {} THEN SelectSeq(all, keep) ELSE all

(***************************************************************************)
(* The task translatePatch wraps in SafeAsync, for one language file       *)
(***************************************************************************)

\* the task of a file before it is queued
NoTask ==
    [sa |-> NewSafeAsync(DefaultRetries), b |-> 0, result |-> <<>>, log |-> <<>>]

\* new SafeAsync(fn).run(): fn is invoked and translate() reaches its first await
StartedTask == [NoTask EXCEPT !.sa = SaRun(NoTask.sa)]

\* the backend answered batch b+1 with `answer`, a JSON object or a falsy value
AnsweredTask(tk, batchList, answer) ==
    [tk EXCEPT !.b = @ + 1,
               !.log = Append(@, "call"),
               !.result = IF answer.falsy THEN @
                          ELSE @ \o ProcessResponse(batchList[tk.b + 1], answer.strings)]

\* sendLLMRequest threw: translate rejects, and so does fn
ThrownTask(tk) ==
    [tk EXCEPT !.sa = SaRejected(@, "backend"), !.log = Append(@, "call")]

\* translate resolved: the setValue loop ran, then write() returned or threw
FinishedTask(tk, writeOk) ==
    [tk EXCEPT !.sa = IF writeOk THEN SaResolved(@, "undefined")
                      ELSE SaRejected(@, "write"),
               !.log = @ \o (IF tk.result = <<>> THEN <<>> ELSE <<"set">>)
                         \o (IF writeOk THEN <<"write">> ELSE <<"write failed">>)]

\* the backoff timer fired: the next attempt invokes fn afresh
RetriedTask(tk) == [tk EXCEPT !.sa = SaWoken(@), !.b = 0, !.result = <<>>]

(***************************************************************************)
(* Bounded inputs: translation trees                                       *)
(***************************************************************************)

MaxWidth == 2

MaxInnerWidth == 1

a == <<"a">>

b == <<"b">>

c == <<"c">>

d == <<"d">>

SeqsUpTo(S, n) == UNION {[1..m -> S] : m \in 0..n}

\* The property lists an object can have: names unique, in own-property order.
RECURSIVE PutAll(_, _)
PutAll(kids, more) ==
    IF more = <<>> THEN kids
    ELSE PutAll(PutProp(kids, Head(more).k, Head(more).n), Tail(more))

IsPropertyList(kids) ==
    /\ \A i, j \in 1..Len(kids) : kids[i].k = kids[j].k => i = j
    /\ PutAll(<<>>, kids) = kids

ObjectsOver(keys, nodes, width) ==
    {Obj(kids) : kids \in {s \in SeqsUpTo([k : keys, n : nodes], width) :
                              IsPropertyList(s)}}

TreesOver(topKeys, innerKeys, leaves, innerLeaves) ==
    ObjectsOver(topKeys,
                leaves \cup ObjectsOver(innerKeys, innerLeaves, MaxInnerWidth),
                MaxWidth)

\* The spec's scenario: base {a:Hello, b:{c:World}}, patched {a:Hi, b:{c:World}, d:New}
ScenarioBase ==
    Obj(<<Prop(a, Str("Hello")), Prop(b, Obj(<<Prop(c, Str("World"))>>))>>)

ScenarioPatched ==
    Obj(<<Prop(a, Str("Hi")), Prop(b, Obj(<<Prop(c, Str("World"))>>)),
          Prop(d, Str("New"))>>)

DiffTrees ==
    TreesOver({a, b, a \o <<Dot>> \o b}, {a, b},
              {Str("x"), Str("y"), Num}, {Str("x"), Str("y")})

DiffInputs ==
    (DiffTrees \X DiffTrees) \cup {<<ScenarioBase, ScenarioPatched>>}

RoundTripTrees ==
    TreesOver({a, a \o <<Dot>> \o b, <<"1">>, <<"2">>}, {a, b, <<>>},
              {Str("x"), Str("y")}, {Str("x"), Str("y")})

(***************************************************************************)
(* State                                                                   *)
(***************************************************************************)

VARIABLES
    pc,        \* where patchTranslations (or the harness) stands
    base,      \* baseTranslation.json
    patched,   \* patchedTranslation.json
    diff,      \* the list diff() returned
    json,      \* the json of the TranslationJson that setValue is applied to
    entries,   \* flatten() of the source tree, as [key, value] pairs in order
    applied,   \* how many of the entries have been applied with setValue
    legacy,    \* the value of a TranslationJsonFile given the same calls as json
    call,      \* the last accessor call: its arguments and what it returned
    items,     \* the list handed to the batching
    batchSize, \* the chunk size handed to the batching
    batches,   \* the batches LLMTranslation.translate sliced
    batch,     \* Batch.batch
    called,    \* the operations the harness has run
    responses, \* per batch translate has processed: the backend's response and
               \* what processTranslations returned for it
    translated, \* translate's result array
    safe,      \* the SafeAsync instance under test
    includeLanguages, \* the codes of --include-languages, split on ','
    listing,   \* the names readdirSync lists in the output folder
    corrupt,   \* the names of the listed files that are not valid JSON
    content,   \* the tree the valid language files hold before the run
    faulty,    \* the names of the files whose backend calls or writes may fail
    loaded,    \* the TranslationJson objects discovery returned: [path, json]
    translations, \* the objects handed to translatePatch, by position in loaded
    idx,       \* translatePatch's loop: the next position of translations
    queue,     \* translatePatch's queue: the objects whose tasks it holds
    task,      \* per loaded object, its SafeAsync task
    writes     \* per loaded object, the trees written to its file, in order

treeVars == <<base, patched, diff>>

tripVars == <<json, entries, applied, legacy, call>>

batchVars == <<items, batchSize, batches, batch, called, responses, translated>>

inputVars == <<includeLanguages, listing, corrupt, content, faulty>>

patchVars == <<loaded, translations, idx, queue, task, writes>>

vars == <<pc, base, patched, diff, json, entries, applied, legacy, call,
          items, batchSize, batches, batch, called, responses, translated, safe,
          includeLanguages, listing, corrupt, content, faulty,
          loaded, translations, idx, queue, task, writes>>

IdleTree == base = EmptyObj /\ patched = EmptyObj /\ diff = <<>>

NoCall == [op |-> "none"]

IdleTrip ==
    /\ json = EmptyObj /\ entries = <<>> /\ applied = 0
    /\ legacy = EmptyObj /\ call = NoCall

IdleBatch ==
    /\ items = <<>> /\ batchSize = 1 /\ batches = <<>> /\ batch = <<>> /\ called = {}
    /\ responses = <<>> /\ translated = <<>>

IdleSafe == safe = NewSafeAsync(DefaultRetries)

IdlePatch ==
    /\ includeLanguages = {} /\ listing = <<>> /\ corrupt = {}
    /\ content = EmptyObj /\ faulty = {}
    /\ loaded = <<>> /\ translations = <<>> /\ idx = 1 /\ queue = <<>>
    /\ task = <<>> /\ writes = <<>>

(***************************************************************************)
(* diff of two loaded trees (patchTranslations, `baseTranslation.diff`)    *)
(***************************************************************************)

InitDiff ==
    /\ pc = "compare"
    /\ \E p \in DiffInputs : base = p[1] /\ patched = p[2]
    /\ diff = <<>>
    /\ IdleTrip /\ IdleBatch /\ IdleSafe /\ IdlePatch

CompareTranslations ==
    /\ pc = "compare"
    /\ diff' = Diff(base, patched)
    /\ pc' = "patch"
    /\ UNCHANGED <<base, patched>>
    /\ UNCHANGED <<tripVars, batchVars, safe, inputVars, patchVars>>

NextDiff == CompareTranslations

SpecDiff == InitDiff /\ [][NextDiff]_vars

C1_Changed(e) ==
    \/ ~MapHas(Flatten(patched), e.key)
    \/ MapGet(Flatten(patched), e.key) # e.value

C1_Added(e) == ~MapHas(Flatten(base), e.key)

\* C1: diff(base, other) lists, in the order of base's flattened keys, (k, base's
\* value) for every k that other's flattened form lacks or maps to another value,
\* then, in the order of other's flattened keys, (k, other's value) for every k
\* that base's flattened form lacks, and nothing else; diff(T, T) is empty and
\* the scenario {a:Hello, b:{c:World}} against {a:Hi, b:{c:World}, d:New} gives
\* [(a,Hello), (d,New)].
C1_DiffIsChangedThenAdded ==
    pc = "patch" =>
        /\ diff = SelectSeq(Flatten(base), C1_Changed)
                  \o SelectSeq(Flatten(patched), C1_Added)
        /\ (base = patched => diff = <<>>)
        /\ (base = ScenarioBase /\ patched = ScenarioPatched
              => diff = <<KeyValue(a, "Hello"), KeyValue(d, "New")>>)

C1_Witness ==
    /\ pc = "patch"
    /\ base = ScenarioBase
    /\ patched = ScenarioPatched
    /\ diff = <<KeyValue(a, "Hello"), KeyValue(d, "New")>>

(***************************************************************************)
(* Round trip: flatten a tree, then setValue every entry onto an empty one *)
(***************************************************************************)

InitRoundTrip ==
    /\ pc = "flatten"
    /\ base \in RoundTripTrees
    /\ patched = EmptyObj
    /\ diff = <<>>
    /\ IdleTrip /\ IdleBatch /\ IdleSafe /\ IdlePatch

FlattenSource ==
    /\ pc = "flatten"
    /\ entries' = Flatten(base)
    /\ pc' = "apply"
    /\ UNCHANGED <<json, applied, legacy, call>>
    /\ UNCHANGED <<treeVars, batchVars, safe, inputVars, patchVars>>

ApplyEntry ==
    /\ pc = "apply"
    /\ applied < Len(entries)
    /\ json' = SetValue(json, entries[applied + 1].key, entries[applied + 1].value)
    /\ applied' = applied + 1
    /\ UNCHANGED <<pc, entries, legacy, call>>
    /\ UNCHANGED <<treeVars, batchVars, safe, inputVars, patchVars>>

NextRoundTrip == FlattenSource \/ ApplyEntry

SpecRoundTrip == InitRoundTrip /\ [][NextRoundTrip]_vars

RoundTripDone == pc = "apply" /\ applied = Len(entries)

IsIndexEntry(e) == IsArrayIndex(e.key)

IsNamedEntry(e) == ~IsArrayIndex(e.key)

\* C2 as claimed: after every entry of flatten(T) has been applied in order onto
\* an empty tree, flatten of the rebuilt tree equals flatten(T): same keys, same
\* values, same order.
C2_RoundTripSameOrder == RoundTripDone => Flatten(json) = Flatten(base)

\* C2 as amended: the rebuilt tree flattens to exactly the keys and values of
\* flatten(T); the keys that are not array indices keep the order of flatten(T),
\* and the keys that are array indices come first, in ascending numeric order
\* (so the order is that of flatten(T) whenever no flattened key is an index).
C2_RoundTripKeysAndValues ==
    RoundTripDone =>
        LET out == Flatten(json)
            src == Flatten(base)
        IN /\ Len(out) = Len(src)
           /\ {out[i] : i \in 1..Len(out)} = {src[i] : i \in 1..Len(src)}
           /\ SelectSeq(out, IsNamedEntry) = SelectSeq(src, IsNamedEntry)
           /\ \A i, j \in 1..Len(out) :
                i < j /\ IsArrayIndex(out[j].key)
                  => /\ IsArrayIndex(out[i].key)
                     /\ NumVal(out[i].key) < NumVal(out[j].key)
           /\ (SelectSeq(src, IsIndexEntry) = <<>> => out = src)

C2_Witness ==
    /\ RoundTripDone
    /\ Len(entries) = 2
    /\ ~IsFlat(base)
    /\ Flatten(json) = Flatten(base)

(***************************************************************************)
(* Batching harness                                                        *)
(***************************************************************************)

MaxItems == 5

MaxBatchSize == 3

BatchItems == {"p", "q"}

InitBatch ==
    /\ pc = "batch"
    /\ items \in SeqsUpTo(BatchItems, MaxItems)
    /\ batchSize \in 1..MaxBatchSize
    /\ batches = <<>>
    /\ batch = <<>>
    /\ called = {}
    /\ responses = <<>> /\ translated = <<>>
    /\ IdleTree /\ IdleTrip /\ IdleSafe /\ IdlePatch

TranslateSlices ==
    /\ pc = "batch"
    /\ "translate" \notin called
    /\ batches' = TranslateBatches(items, batchSize)
    /\ called' = called \cup {"translate"}
    /\ UNCHANGED <<pc, items, batchSize, batch, responses, translated>>
    /\ UNCHANGED <<treeVars, tripVars, safe, inputVars, patchVars>>

CreateBatch ==
    /\ pc = "batch"
    /\ "create" \notin called
    /\ batch' = BatchCreate(batch, items, batchSize)
    /\ called' = called \cup {"create"}
    /\ UNCHANGED <<pc, items, batchSize, batches, responses, translated>>
    /\ UNCHANGED <<treeVars, tripVars, safe, inputVars, patchVars>>

NextBatch == TranslateSlices \/ CreateBatch

SpecBatch == InitBatch /\ [][NextBatch]_vars

RECURSIVE Concat(_)
Concat(chunks) == IF chunks = <<>> THEN <<>> ELSE Head(chunks) \o Concat(Tail(chunks))

IsChunking(chunks, list, n) ==
    /\ Len(chunks) * n >= Len(list)
    /\ (Len(chunks) - 1) * n < Len(list) \/ (Len(chunks) = 0 /\ Len(list) = 0)
    /\ \A i \in 1..Len(chunks) :
         /\ Len(chunks[i]) >= 1
         /\ (i < Len(chunks) => Len(chunks[i]) = n)
    /\ Concat(chunks) = list

\* C3: for a list of length L and a chunk size n >= 1, the slicing of translate and
\* Batch.create both give ceil(L/n) chunks (the least count c with c*n >= L), every
\* chunk but possibly the last of size n, no chunk empty, and the chunks
\* concatenated in order are the list.
C3_BatchesPartitionTheList ==
    /\ ("translate" \in called => IsChunking(batches, items, batchSize))
    /\ ("create" \in called => IsChunking(batch, items, batchSize))

C3_Witness ==
    /\ called = {"translate", "create"}
    /\ Len(items) = 5
    /\ batchSize = 2
    /\ Len(batches) = 3
    /\ Len(batch) = 3
    /\ Len(batches[3]) = 1

(***************************************************************************)
(* SafeAsync harness: fn resolves or rejects as the environment decides    *)
(***************************************************************************)

MaxRetries == 4

FnValues == {"v1", "v2"}

FnErrors == {"timeout", "malformed"}

InitRetry ==
    /\ pc = "retry"
    /\ \E n \in 0..MaxRetries : safe = NewSafeAsync(n)
    /\ IdleTree /\ IdleTrip /\ IdleBatch /\ IdlePatch

Run ==
    /\ pc = "retry"
    /\ safe.st = "new"
    /\ safe' = SaRun(safe)
    /\ UNCHANGED <<pc, treeVars, tripVars, batchVars, inputVars, patchVars>>

FnResolves ==
    /\ pc = "retry"
    /\ safe.st = "calling"
    /\ \E v \in FnValues : safe' = SaResolved(safe, v)
    /\ UNCHANGED <<pc, treeVars, tripVars, batchVars, inputVars, patchVars>>

FnRejects ==
    /\ pc = "retry"
    /\ safe.st = "calling"
    /\ \E e \in FnErrors : safe' = SaRejected(safe, e)
    /\ UNCHANGED <<pc, treeVars, tripVars, batchVars, inputVars, patchVars>>

TimerFires ==
    /\ pc = "retry"
    /\ safe.st = "sleeping"
    /\ safe' = SaWoken(safe)
    /\ UNCHANGED <<pc, treeVars, tripVars, batchVars, inputVars, patchVars>>

NextRetry == Run \/ FnResolves \/ FnRejects \/ TimerFires

SpecRetry == InitRetry /\ [][NextRetry]_vars

\* C4 as claimed: when fn failed on its first k invocations and then succeeded
\* (k < retries), run returns an outcome whose result is the success value and
\* whose error list holds exactly the k recorded errors, after exactly k+1
\* invocations.
C4_SuccessOutcomeCarriesErrors ==
    (safe.st = "returned" /\ safe.outcome.result # Null) =>
        /\ safe.outcome.result \in FnValues
        /\ safe.calls = Len(safe.errors) + 1
        /\ Len(safe.errors) < safe.retries
        /\ safe.outcome.errors = safe.errors

\* C5: when fn fails on every invocation, run invokes it exactly `retries` times
\* and resolves (it never rejects) with a null result and the `retries` recorded
\* errors, and it does not sleep after the last failed attempt.
C5_ExhaustedBudget ==
    /\ safe.st \in {"new", "calling", "sleeping", "returned"}
    /\ (safe.st = "sleeping" => safe.i < safe.retries - 1)
    /\ safe.calls <= safe.retries
    /\ (safe.st = "returned" /\ safe.outcome.result = Null) =>
          /\ safe.calls = safe.retries
          /\ Len(safe.outcome.errors) = safe.retries
          /\ safe.outcome.errors = safe.errors
          /\ Len(safe.sleeps) = (IF safe.retries = 0 THEN 0 ELSE safe.retries - 1)
          /\ \A j \in 1..Len(safe.sleeps) : safe.sleeps[j] = Pow2(j - 1) * 1000

C5_Witness ==
    /\ safe.retries = DefaultRetries
    /\ safe.st = "returned"
    /\ safe.outcome.result = Null
    /\ Len(safe.outcome.errors) = 3
    /\ safe.sleeps = <<1000, 2000>>

(***************************************************************************)
(* patchTranslations and translatePatch                                    *)
(***************************************************************************)

MaxListing == 3

MaxFaulty == 1

OutputFolder == <<"o", "u", "t">>

TranslatedText == "translated"

FileName(code) == code \o DotJson

NamePool ==
    {FileName(<<"i", "d">>), FileName(<<"f", "r">>), FileName(<<"d", "e">>),
     FileName(<<"z", "z">>)}

Range(seq) == {seq[i] : i \in 1..Len(seq)}

SmallListings ==
    {l \in SeqsUpTo(NamePool, MaxListing) : Cardinality(Range(l)) = Len(l)}

\* One more resolvable file than a window holds, and an unresolvable one among them.
LargeListing ==
    <<FileName(<<"a", "f">>), FileName(<<"a", "k">>), FileName(<<"s", "q">>),
      FileName(<<"z", "z">>), FileName(<<"a", "m">>), FileName(<<"a", "r">>),
      FileName(<<"h", "y">>), FileName(<<"a", "s">>), FileName(<<"a", "y">>),
      FileName(<<"a", "z">>), FileName(<<"b", "m">>), FileName(<<"e", "u">>)>>

IncludeSets == {{}, {<<"i", "d">>}, {<<"i", "d">>, <<"z", "z">>}}

FileContents ==
    {Obj(<<Prop(a, Str("Halo")), Prop(b, Obj(<<Prop(c, Str("Dunia"))>>))>>),
     Obj(<<Prop(a, Str("Halo"))>>)}

DigitChar(n) ==
    CASE n = 0 -> "0" [] n = 1 -> "1" [] n = 2 -> "2" [] n = 3 -> "3"
      [] n = 4 -> "4" [] n = 5 -> "5" [] n = 6 -> "6" [] n = 7 -> "7"
      [] n = 8 -> "8" [] OTHER -> "9"

\* A flat tree of n keys k01, k02, ...: more than one batch when n > 50.
WideTree(n) ==
    Obj([i \in 1..n |->
           Prop(<<"k", DigitChar(i \div 10), DigitChar(i % 10)>>, Str("text"))])

PatchInputs ==
    {<<ScenarioBase, ScenarioPatched>>,
     <<ScenarioBase, ScenarioBase>>,
     <<EmptyObj, WideTree(DefaultBatchSize + 1)>>}

InitPatch ==
    /\ pc = "discover"
    /\ \E p \in PatchInputs : base = p[1] /\ patched = p[2]
    /\ diff = <<>>
    /\ listing \in SmallListings \cup {LargeListing}
    /\ corrupt \in {{}, {FileName(<<"d", "e">>)}}
    /\ includeLanguages \in IncludeSets
    /\ content \in FileContents
    /\ faulty \in {F \in SUBSET Range(listing) : Cardinality(F) <= MaxFaulty}
    \* the large folder is run with one input and its first file as the one that
    \* may fail; the wide diff is run on a folder of at most one file
    /\ Len(listing) > MaxListing =>
          /\ patched = ScenarioPatched
          /\ corrupt = {} /\ includeLanguages = {}
          /\ IsFlat(content)
          /\ faulty \subseteq {listing[1]}
    /\ Len(patched.kids) > DefaultBatchSize =>
          /\ Len(listing) <= 1
          /\ corrupt = {} /\ includeLanguages = {}
    /\ loaded = <<>> /\ translations = <<>> /\ idx = 1 /\ queue = <<>>
    /\ task = <<>> /\ writes = <<>>
    /\ IdleTrip /\ IdleBatch /\ IdleSafe

\* patchTranslations up to the filter: the folder is listed and parsed
Discover ==
    /\ pc = "discover"
    /\ loaded' = GetTranslationJsonFromFiles(
                    GetTranslationFilesFromPath(OutputFolder, listing), corrupt, content)
    /\ translations' = [i \in 1..Len(loaded') |-> i]
    /\ task' = [i \in 1..Len(loaded') |-> NoTask]
    /\ writes' = [i \in 1..Len(loaded') |-> <<>>]
    /\ pc' = "filter"
    /\ UNCHANGED <<idx, queue, treeVars, tripVars, batchVars, safe, inputVars>>

FilterLanguages ==
    /\ pc = "filter"
    /\ translations' = FilterByLanguages(loaded, includeLanguages)
    /\ pc' = "load"
    /\ UNCHANGED <<loaded, idx, queue, task, writes>>
    /\ UNCHANGED <<treeVars, tripVars, batchVars, safe, inputVars>>

\* the base or the patched file is missing or is not JSON: parse() throws
LoadFails ==
    /\ pc = "load"
    /\ pc' = "rejectedLoad"
    /\ UNCHANGED <<treeVars, tripVars, batchVars, safe, inputVars, patchVars>>

LoadTranslations ==
    /\ pc = "load"
    /\ pc' = "compare"
    /\ UNCHANGED <<treeVars, tripVars, batchVars, safe, inputVars, patchVars>>

Current == translations[idx]

BatchList == TranslateBatches(diff, DefaultBatchSize)

IsFaulty(f) == LastPiece(loaded[f].path, Slash) \in faulty

SkipUnresolvable ==
    /\ pc = "patch"
    /\ idx <= Len(translations)
    /\ ~ResolvesLanguage(loaded[Current].path)
    /\ idx' = idx + 1
    /\ UNCHANGED <<pc, loaded, translations, queue, task, writes>>
    /\ UNCHANGED <<treeVars, tripVars, batchVars, safe, inputVars>>

WaitForWindow ==
    /\ pc = "patch"
    /\ idx <= Len(translations)
    /\ ResolvesLanguage(loaded[Current].path)
    /\ WindowFull(queue, DefaultWindow)
    /\ pc' = "await"
    /\ UNCHANGED <<treeVars, tripVars, batchVars, safe, inputVars, patchVars>>

QueueTask ==
    /\ pc = "patch"
    /\ idx <= Len(translations)
    /\ ResolvesLanguage(loaded[Current].path)
    /\ ~WindowFull(queue, DefaultWindow)
    /\ queue' = Append(queue, Current)
    /\ task' = [task EXCEPT ![Current] = StartedTask]
    /\ idx' = idx + 1
    /\ UNCHANGED <<pc, loaded, translations, writes>>
    /\ UNCHANGED <<treeVars, tripVars, batchVars, safe, inputVars>>

\* Promise.all(queue) has settled
WindowSettled ==
    \/ \E i \in 1..Len(queue) : task[queue[i]].sa.st = "threw"
    \/ \A i \in 1..Len(queue) : task[queue[i]].sa.st = "returned"

\* await Promise.all(queue) settled: it rejects with the first task that rejected,
\* and otherwise the loop goes on with an empty queue and queues the current file
ResumeAfterWindow ==
    /\ pc = "await"
    /\ WindowSettled
    /\ IF \E i \in 1..Len(queue) : task[queue[i]].sa.st = "threw"
       THEN /\ pc' = "rejectedPatch"
            /\ UNCHANGED <<queue, task, idx>>
       ELSE /\ pc' = "patch"
            /\ queue' = <<Current>>
            /\ task' = [task EXCEPT ![Current] = StartedTask]
            /\ idx' = idx + 1
    /\ UNCHANGED <<loaded, translations, writes>>
    /\ UNCHANGED <<treeVars, tripVars, batchVars, safe, inputVars>>

\* the loop is over: translatePatch returns, and so does patchTranslations
ReturnFromPatch ==
    /\ pc = "patch"
    /\ idx > Len(translations)
    /\ pc' = "returned"
    /\ UNCHANGED <<treeVars, tripVars, batchVars, safe, inputVars, patchVars>>

\* The event loop runs a task's continuation only while the loop above is suspended.
Yielded == pc \in {"await", "returned", "rejectedPatch"}

FullAnswer(n) ==
    [falsy |-> FALSE, strings |-> [i \in 1..n |-> [has |-> TRUE, s |-> TranslatedText]]]

FalsyAnswer == [falsy |-> TRUE, strings |-> <<>>]

Answers(f, n) == {FullAnswer(n)} \cup (IF IsFaulty(f) THEN {FalsyAnswer} ELSE {})

WriteOutcomes(f) == {TRUE} \cup (IF IsFaulty(f) THEN {FALSE} ELSE {})

\* the rest of fn once translate() has resolved: the merges, then write()
Finish(f, tk, writeOk) ==
    /\ loaded' = [loaded EXCEPT ![f].json = SetValues(@, tk.result)]
    /\ task' = [task EXCEPT ![f] = FinishedTask(tk, writeOk)]
    /\ writes' = IF writeOk
                 THEN [writes EXCEPT ![f] = Append(@, SetValues(loaded[f].json, tk.result))]
                 ELSE writes

BatchAnswered(f) ==
    /\ Yielded
    /\ task[f].sa.st = "calling"
    /\ task[f].b < Len(BatchList)
    /\ \E answer \in Answers(f, Len(BatchList[task[f].b + 1])) :
         LET tk == AnsweredTask(task[f], BatchList, answer)
         IN IF tk.b < Len(BatchList)
            THEN /\ task' = [task EXCEPT ![f] = tk]
                 /\ UNCHANGED <<loaded, writes>>
            ELSE \E writeOk \in WriteOutcomes(f) : Finish(f, tk, writeOk)
    /\ UNCHANGED <<pc, translations, idx, queue>>
    /\ UNCHANGED <<treeVars, tripVars, batchVars, safe, inputVars>>

BatchThrows(f) ==
    /\ Yielded
    /\ task[f].sa.st = "calling"
    /\ task[f].b < Len(BatchList)
    /\ IsFaulty(f)
    /\ task' = [task EXCEPT ![f] = ThrownTask(task[f])]
    /\ UNCHANGED <<pc, loaded, translations, idx, queue, writes>>
    /\ UNCHANGED <<treeVars, tripVars, batchVars, safe, inputVars>>

\* an empty diff: translate() resolves with no batch sent
TranslateNothing(f) ==
    /\ Yielded
    /\ task[f].sa.st = "calling"
    /\ Len(BatchList) = 0
    /\ \E writeOk \in WriteOutcomes(f) : Finish(f, task[f], writeOk)
    /\ UNCHANGED <<pc, translations, idx, queue>>
    /\ UNCHANGED <<treeVars, tripVars, batchVars, safe, inputVars>>

BackoffElapsed(f) ==
    /\ Yielded
    /\ task[f].sa.st = "sleeping"
    /\ task' = [task EXCEPT ![f] = RetriedTask(task[f])]
    /\ UNCHANGED <<pc, loaded, translations, idx, queue, writes>>
    /\ UNCHANGED <<treeVars, tripVars, batchVars, safe, inputVars>>

\* A step of translatePatch: of its loop, or of one of the tasks it queued
TranslatePatchStep ==
    \/ SkipUnresolvable
    \/ WaitForWindow
    \/ QueueTask
    \/ ResumeAfterWindow
    \/ ReturnFromPatch
    \/ \E f \in 1..Len(loaded) : BatchAnswered(f)
    \/ \E f \in 1..Len(loaded) : BatchThrows(f)
    \/ \E f \in 1..Len(loaded) : TranslateNothing(f)
    \/ \E f \in 1..Len(loaded) : BackoffElapsed(f)

NextPatch ==
    \/ Discover
    \/ FilterLanguages
    \/ LoadFails
    \/ LoadTranslations
    \/ CompareTranslations
    \/ TranslatePatchStep

SpecPatch == InitPatch /\ [][NextPatch]_vars

(***************************************************************************)
(* Properties of the run                                                   *)
(***************************************************************************)

Files == 1..Len(loaded)

Started(f) == task[f].sa.st # "new"

Settled(f) == task[f].sa.st = "returned"

InFlight(f) == task[f].sa.st \in {"calling", "sleeping"}

Exhausted(f) == Settled(f) /\ task[f].sa.outcome.result = Null

WriteFailed(f) == \E i \in 1..Len(task[f].log) : task[f].log[i] = "write failed"

\* The files the run is to translate: the code of the name resolves, and is in
\* the include-set when there is one.
Eligible(f) ==
    /\ HasLanguage(CodeOfPath(loaded[f].path))
    /\ (includeLanguages # {} => CodeOfPath(loaded[f].path) \in includeLanguages)

\* The window each file is queued in (-1: never queued): the loop starts a new
\* window at every tenth file it queues, and a file it skips is not counted.
Windows ==
    LET Visit(r, f) ==
            IF ResolvesLanguage(loaded[f].path)
            THEN [seen |-> r.seen + 1,
                  of |-> [r.of EXCEPT ![f] = r.seen \div DefaultWindow]]
            ELSE r
    IN ForEach(Visit, [seen |-> 0, of |-> [f \in Files |-> -1]], translations).of

BatchKeys(j) == {BatchList[j][i].key : i \in 1..Len(BatchList[j])}

\* C6 as claimed: when a batch's backend call still fails after the retry budget
\* is exhausted (and no write failed), the file is still written once, and the
\* entries of the batches that were answered are merged into its tree.
C6_FailedBatchKeepsTheOthers ==
    \A f \in Files :
        (Exhausted(f) /\ ~WriteFailed(f)) =>
            /\ Len(writes[f]) = 1
            /\ \A j \in 1..task[f].b : \A k \in BatchKeys(j) :
                 GetValue(loaded[f].json, k).value = TranslatedText

NoRejection ==
    /\ pc # "rejectedPatch"
    /\ \A f \in Files : task[f].sa.st # "threw"
    /\ pc = "returned" => \A f \in Files : Eligible(f) => Started(f)

RunIsOver == pc = "returned" /\ \A f \in Files : Eligible(f) => Settled(f)

\* The loop of translatePatch has a step to take
LoopCanStep == pc = "patch" \/ (pc = "await" /\ WindowSettled)

\* The task of file f has a continuation the event loop can run: a backend call to
\* be answered, an empty translate() to resolve, or a backoff timer to fire
TaskCanStep(f) ==
    /\ Yielded
    /\ \/ task[f].sa.st = "sleeping"
       \/ task[f].sa.st = "calling" /\ task[f].b < Len(BatchList)
       \/ task[f].sa.st = "calling" /\ Len(BatchList) = 0

\* C7: once the base and patched files are loaded, no failure of a per-file task
\* makes the run reject, no task's promise rejects, every eligible file's task is
\* started by the time the loop returns, and until every eligible file's task has
\* completed the loop or one of the tasks has a step to take (a failing file
\* blocks neither its window nor the later ones).
C7_FailuresNeverAbortTheRun ==
    /\ NoRejection
    /\ pc \in {"patch", "await", "returned"} =>
          \/ RunIsOver
          \/ LoopCanStep
          \/ \E f \in Files : TaskCanStep(f)

C7_Witness ==
    LET win == Windows
    IN /\ pc = "returned"
       /\ Len(loaded) > DefaultWindow
       /\ \E f \in Files :
            Exhausted(f) /\ win[f] = 0 /\ Len(task[f].sa.outcome.errors) = DefaultRetries
       /\ \E g \in Files : Settled(g) /\ win[g] = 1 /\ Len(writes[g]) = 1
       /\ \A f \in Files : Eligible(f) => Settled(f)

\* C8: at most ten per-file tasks are in flight, and no task of a later window is
\* started before every task of the windows before it has completed; files
\* skipped as unresolvable take no place in a window.
C8_WindowBoundsTasksInFlight ==
    LET win == Windows
    IN /\ Cardinality({f \in Files : InFlight(f)}) <= DefaultWindow
       /\ \A g \in Files :
            Started(g) =>
               \A f \in Files : (win[f] >= 0 /\ win[f] < win[g]) => Settled(f)
       /\ \A f \in Files : ~ResolvesLanguage(loaded[f].path) => ~Started(f)

C8_Witness ==
    LET win == Windows
    IN /\ Cardinality({f \in Files : Settled(f)}) = DefaultWindow
       /\ \E g \in Files :
            /\ InFlight(g) /\ win[g] = 1
            /\ \E f \in 1..(g - 1) : ~ResolvesLanguage(loaded[f].path)

IsEvent(f, i, kind) == task[f].log[i] = kind

\* C9 as claimed: for each processed file (whose writes do not fail) no setValue
\* precedes one of its batch calls, the write follows its merges, and once the
\* task is over the file has been written exactly once.
C9_MergeAfterCallsThenOneWrite ==
    \A f \in Files :
        ~WriteFailed(f) =>
            /\ \A i, j \in 1..Len(task[f].log) :
                 i < j => /\ ~(IsEvent(f, i, "set") /\ IsEvent(f, j, "call"))
                          /\ ~(IsEvent(f, i, "write") /\ IsEvent(f, j, "set"))
                          /\ ~(IsEvent(f, i, "write") /\ IsEvent(f, j, "call"))
            /\ Len(writes[f]) <= 1
            /\ (Settled(f) => Len(writes[f]) = 1)

\* C10 as claimed: when the run is over (and no write failed), the files written
\* are exactly the eligible ones, and every other loaded file has seen no backend
\* call, holds the tree it was loaded with and was never written.
C10_ExactlyTheEligibleFilesAreWritten ==
    (pc = "returned" /\ \A f \in Files : Started(f) => (Settled(f) /\ ~WriteFailed(f))) =>
        \A f \in Files :
            /\ Eligible(f) <=> Len(writes[f]) >= 1
            /\ ~Eligible(f) => /\ task[f] = NoTask
                               /\ loaded[f].json = content
                               /\ writes[f] = <<>>

(***************************************************************************)
(* Accessor harness: getValue, setValue and flatten called on a tree that   *)
(* may hold numbers, booleans, null and arrays; a TranslationJsonFile       *)
(* holding the same tree is given the same calls                            *)
(***************************************************************************)

MaxCalls == 2

AccessTrees ==
    TreesOver({a, b, a \o <<Dot>> \o b}, {b, c},
              {Str("x"), Num, Bool, NullNode, ArrOf(<<Prop(<<"0">>, Str("y"))>>)},
              {Str("x"), NullNode})

AccessKeys ==
    {a, b, a \o <<Dot>> \o b, a \o <<Dot, "0">>, b \o <<Dot>> \o c,
     a \o <<Dot>> \o b \o <<Dot>> \o c}

\* the text the harness stores with setValue
StoredText == "z"

InitAccess ==
    /\ pc = "access"
    /\ json \in AccessTrees
    /\ legacy = json
    /\ entries = <<>>
    /\ applied = 0
    /\ call = NoCall
    /\ IdleTree /\ IdleBatch /\ IdleSafe /\ IdlePatch

\* json.getValue(key) and legacy.getValue(key)
CallGetValue ==
    /\ pc = "access"
    /\ applied < MaxCalls
    /\ \E key \in AccessKeys :
          LET got == GetValue(json, key)
              old == LegacyGetValue(legacy, key)
          IN call' = [op |-> "get", key |-> key, before |-> json,
                      legacyBefore |-> legacy,
                      threw |-> got = TypeError,
                      result |-> IF got = TypeError THEN "" ELSE got.value,
                      legacyThrew |-> old = TypeError,
                      legacyResult |-> old]
    /\ applied' = applied + 1
    /\ UNCHANGED <<pc, json, legacy, entries>>
    /\ UNCHANGED <<treeVars, batchVars, safe, inputVars, patchVars>>

\* json.setValue(key, StoredText) and legacy.setValue(key, StoredText); a call
\* that throws leaves its tree as it was
CallSetValue ==
    /\ pc = "access"
    /\ applied < MaxCalls
    /\ \E key \in AccessKeys :
          LET now == SetValue(json, key, StoredText)
              old == LegacySetValue(legacy, key, StoredText)
          IN /\ json' = IF now = TypeError THEN json ELSE now
             /\ legacy' = IF old = TypeError THEN legacy ELSE old
             /\ call' = [op |-> "set", key |-> key, before |-> json,
                         legacyBefore |-> legacy,
                         threw |-> now = TypeError,
                         result |-> "",
                         legacyThrew |-> old = TypeError,
                         legacyResult |-> Undefined]
    /\ applied' = applied + 1
    /\ UNCHANGED <<pc, entries>>
    /\ UNCHANGED <<treeVars, batchVars, safe, inputVars, patchVars>>

\* json.flatten(): the entries, or none when it throws
CallFlatten ==
    /\ pc = "access"
    /\ applied < MaxCalls
    /\ entries' = IF FlattenThrows(json) THEN <<>> ELSE Flatten(json)
    /\ call' = [op |-> "flatten", key |-> <<>>, before |-> json,
                legacyBefore |-> legacy,
                threw |-> FlattenThrows(json),
                result |-> "",
                legacyThrew |-> FALSE,
                legacyResult |-> Undefined]
    /\ applied' = applied + 1
    /\ UNCHANGED <<pc, json, legacy>>
    /\ UNCHANGED <<treeVars, batchVars, safe, inputVars, patchVars>>

NextAccess == CallGetValue \/ CallSetValue \/ CallFlatten

SpecAccess == InitAccess /\ [][NextAccess]_vars

\* the string a descent through mapping nodes only reaches, "" when it reaches
\* none (a segment is missing, an intermediate node is no mapping, the leaf is
\* no string)
RECURSIVE LeafThroughMappings(_, _)
LeafThroughMappings(kids, keys) ==
    IF Len(keys) = 0 \/ ~HasProp(kids, Head(keys)) THEN ""
    ELSE LET n == GetProp(kids, Head(keys))
         IN IF Len(keys) = 1 THEN (IF IsString(n) THEN n.v ELSE "")
            ELSE IF n.t = "obj" THEN LeafThroughMappings(n.kids, Tail(keys))
            ELSE ""

\* C11 as claimed: getValue never throws, and returns the string that descending
\* the key's segments through mapping nodes reaches, absence ('') in every other
\* case.
C11_GetValueNeverThrows ==
    call.op = "get" =>
        /\ ~call.threw
        /\ call.result = LeafThroughMappings(call.before.kids, Split(call.key))

\* one entry (dot-joined path, value) per string leaf, depth first in property
\* order, descending through mapping nodes only
RECURSIVE StringLeaves(_, _)
StringLeaves(kids, parentKeys) ==
    IF kids = <<>> THEN <<>>
    ELSE LET e == Head(kids)
             here == IF e.n.t = "obj" THEN StringLeaves(e.n.kids, Append(parentKeys, e.k))
                     ELSE IF IsString(e.n)
                     THEN <<KeyValue(FullKey(parentKeys, e.k), e.n.v)>>
                     ELSE <<>>
         IN here \o StringLeaves(Tail(kids), parentKeys)

\* C12 as claimed: flatten does not fail on arrays, numbers, booleans or null, and
\* emits exactly one entry per string leaf, depth first in property order, the
\* other values being dropped.
C12_FlattenDropsNonStrings ==
    call.op = "flatten" =>
        /\ ~call.threw
        /\ entries = StringLeaves(call.before.kids, <<>>)

\* C13 as claimed: the accessor with the flat shortcut and the purely recursive
\* one, started from the same tree and given the same set and get calls, hold
\* equal trees after every call, and every get returns the same string or
\* absence from both (or throws from both).
C13_AccessorsAgree ==
    call.op \in {"get", "set"} =>
        /\ json = legacy
        /\ call.threw = call.legacyThrew
        /\ call.op = "get" /\ ~call.threw =>
               call.legacyResult = IF call.result = "" THEN Undefined
                                   ELSE Str(call.result)

(***************************************************************************)
(* Discovery harness: patchTranslations up to the count of invalid files,  *)
(* on folders of up to MaxFolder *.json files                              *)
(***************************************************************************)

MaxFolder == 21

\* the names 01.json, 02.json, ..., in the order the folder lists them
NumberedListing(n) ==
    [i \in 1..n |-> FileName(<<DigitChar(i \div 10), DigitChar(i % 10)>>)]

NotesName == <<"n", "o", "t", "e", "s", ".", "t", "x", "t">>

\* none, one, two or all of the names
CorruptSets(names) ==
    {{}, Range(names)} \cup {{names[i], names[j]} : i, j \in 1..Len(names)}

InitDiscover ==
    /\ pc = "discover"
    /\ \E n \in 0..MaxFolder :
          /\ listing \in {NumberedListing(n), <<NotesName>> \o NumberedListing(n)}
          /\ corrupt \in CorruptSets(NumberedListing(n))
    /\ includeLanguages = {}
    /\ content = Obj(<<Prop(a, Str("Halo"))>>)
    /\ faulty = {}
    /\ loaded = <<>> /\ translations = <<>> /\ idx = 1 /\ queue = <<>>
    /\ task = <<>> /\ writes = <<>>
    /\ IdleTree /\ IdleTrip /\ IdleBatch /\ IdleSafe

NextDiscover == Discover

SpecDiscover == InitDiscover /\ [][NextDiscover]_vars

\* existingFiles: the folder's *.json files
ExistingFiles == GetTranslationFilesFromPath(OutputFolder, listing)

\* the count of invalid files patchTranslations logs
InvalidFiles == Len(ExistingFiles) - Len(loaded)

IsValidFile(path) == LastPiece(path, Slash) \notin corrupt

\* C14: discovery of a folder of n *.json files of which c are no valid JSON
\* returns the n - c others, parsed, in listing order, and the count of skipped
\* files it reports is c.
C14_DiscoverySkipsCorruptFiles ==
    pc = "filter" =>
        LET valid == SelectSeq(ExistingFiles, IsValidFile)
        IN /\ loaded = [i \in 1..Len(valid) |-> [path |-> valid[i], json |-> content]]
           /\ InvalidFiles = Cardinality({i \in 1..Len(ExistingFiles) :
                                            ~IsValidFile(ExistingFiles[i])})

\* a folder of twenty files, two of them corrupt, has been discovered
C14_Witness ==
    /\ pc = "filter"
    /\ Len(ExistingFiles) = 20
    /\ Len(loaded) = 18
    /\ InvalidFiles = 2

(***************************************************************************)
(* Translate harness: LLMTranslation.translate on a list of entries, the   *)
(* backend answering each batch as it decides                              *)
(***************************************************************************)

\* the entries k1, k2, ..., each with the source text
SourceText == "text"

EntryList(n) == [i \in 1..n |-> KeyValue(<<"k", DigitChar(i)>>, SourceText)]

\* what sendLLMRequest can return for a batch of n entries: an object holding a
\* string for some of the indices 0..n-1, or a falsy value
Responses(n) ==
    {[falsy |-> FALSE, strings |-> r] :
        r \in [1..n -> {[has |-> TRUE, s |-> TranslatedText], [has |-> FALSE, s |-> ""]}]}
    \cup {FalsyAnswer}

InitTranslate ==
    /\ pc = "translate"
    /\ items \in {EntryList(n) : n \in 0..MaxItems}
    /\ batchSize \in 1..MaxBatchSize
    /\ batches = <<>>
    /\ batch = <<>>
    /\ called = {}
    /\ responses = <<>> /\ translated = <<>>
    /\ IdleTree /\ IdleTrip /\ IdleSafe /\ IdlePatch

\* translate(translations, options) up to the first await: the batches are
\* sliced; with no batch it resolves at once
TranslateCalled ==
    /\ pc = "translate"
    /\ batches' = TranslateBatches(items, batchSize)
    /\ pc' = IF Len(batches') = 0 THEN "resolved" ELSE "awaiting"
    /\ UNCHANGED <<items, batchSize, batch, called, responses, translated>>
    /\ UNCHANGED <<treeVars, tripVars, safe, inputVars, patchVars>>

\* sendLLMRequest returned for the batch awaited: processTranslations maps the
\* response (or returns undefined for a falsy one), translate pushes the batch
\* result and goes on to the next batch, or returns
BatchReturns ==
    /\ pc = "awaiting"
    /\ LET current == batches[Len(responses) + 1]
       IN \E response \in Responses(Len(current)) :
            LET batchResult ==
                    IF response.falsy THEN [defined |-> FALSE, value |-> <<>>]
                    ELSE [defined |-> TRUE,
                          value |-> ProcessResponse(current, response.strings)]
            IN /\ responses' = Append(responses, [response |-> response,
                                                  batchResult |-> batchResult])
               /\ translated' = IF batchResult.defined
                                 THEN translated \o batchResult.value
                                 ELSE translated
    /\ pc' = IF Len(responses') = Len(batches) THEN "resolved" ELSE "awaiting"
    /\ UNCHANGED <<items, batchSize, batches, batch, called>>
    /\ UNCHANGED <<treeVars, tripVars, safe, inputVars, patchVars>>

\* sendLLMRequest threw for the batch awaited: translate rejects
BatchRejects ==
    /\ pc = "awaiting"
    /\ pc' = "rejected"
    /\ UNCHANGED <<batchVars, treeVars, tripVars, safe, inputVars, patchVars>>

NextTranslate == TranslateCalled \/ BatchReturns \/ BatchRejects

SpecTranslate == InitTranslate /\ [][NextTranslate]_vars

Keys(list) == [i \in 1..Len(list) |-> list[i].key]

\* the call for batch i succeeded: it returned a response object
Succeeded(i) == ~responses[i].response.falsy

\* the batches whose call succeeded, among those processed so far
SucceededBatches ==
    LET all == [i \in 1..Len(responses) |-> i]
    IN [j \in 1..Len(SelectSeq(all, Succeeded)) |-> batches[SelectSeq(all, Succeeded)[j]]]

\* C16: for every batch whose backend call succeeded, the output of the client
\* has the length and the keys of the batch, position by position, and the value
\* at position i is the response's string for index i, or the entry's own value
\* when the response omits the index; the result of one translate call lists the
\* keys of these batches in the order of the input list, none twice, and so
\* exactly the keys of the input list when every call succeeded.
C16_OutputFollowsTheBatch ==
    /\ \A i \in 1..Len(responses) :
          Succeeded(i) =>
            LET out == responses[i].batchResult
                answer == responses[i].response.strings
            IN /\ out.defined
               /\ Len(out.value) = Len(batches[i])
               /\ \A j \in 1..Len(batches[i]) :
                     /\ out.value[j].key = batches[i][j].key
                     /\ out.value[j].value = IF answer[j].has THEN answer[j].s
                                              ELSE batches[i][j].value
    /\ pc \in {"awaiting", "resolved"} =>
          /\ Keys(translated) = Keys(Concat(SucceededBatches))
          /\ \A i, j \in 1..Len(translated) :
                translated[i].key = translated[j].key => i = j
    /\ pc = "resolved" /\ (\A i \in 1..Len(responses) : Succeeded(i)) =>
          Keys(translated) = Keys(items)

\* a translate call of several batches has returned, every call succeeded, and
\* one response omitted an index while holding another
C16_Witness ==
    /\ pc = "resolved"
    /\ Len(batches) >= 2
    /\ \A i \in 1..Len(responses) : Succeeded(i)
    /\ \E i \in 1..Len(responses) :
          \E j, k \in 1..Len(batches[i]) :
             /\ ~responses[i].response.strings[j].has
             /\ responses[i].response.strings[k].has
             /\ translated[(i - 1) * batchSize + j].value = SourceText
             /\ translated[(i - 1) * batchSize + k].value = TranslatedText

\* C17 as claimed: when translatePatch has returned (its promise has resolved),
\* no per-file task it started is still in flight, and every file whose task
\* merged its translations and whose write did not fail has been written.
C17_ReturnsAfterEveryTask ==
    pc = "returned" =>
        \A f \in Files :
            Started(f) =>
                /\ Settled(f)
                /\ ~Exhausted(f) /\ ~WriteFailed(f) => Len(writes[f]) = 1

\* the value is held at the path: every segment but the last names a mapping,
\* and the last names the string
RECURSIVE NestedUnder(_, _, _)
NestedUnder(kids, keys, text) ==
    /\ Len(keys) >= 1
    /\ HasProp(kids, Head(keys))
    /\ LET n == GetProp(kids, Head(keys))
       IN IF Len(keys) = 1 THEN n = Str(text)
          ELSE n.t = "obj" /\ NestedUnder(n.kids, Tail(keys), text)

\* the properties off the path are those of before, with their values
RECURSIVE OffPathUnchanged(_, _, _)
OffPathUnchanged(before, after, keys) ==
    /\ \A i \in 1..Len(before) :
          before[i].k # Head(keys) =>
              HasProp(after, before[i].k) /\ GetProp(after, before[i].k) = before[i].n
    /\ \A i \in 1..Len(after) : after[i].k # Head(keys) => HasProp(before, after[i].k)
    /\ /\ Len(keys) > 1
       /\ HasProp(before, Head(keys)) /\ GetProp(before, Head(keys)).t = "obj"
       /\ HasProp(after, Head(keys))
       => OffPathUnchanged(GetProp(before, Head(keys)).kids,
                           GetProp(after, Head(keys)).kids, Tail(keys))

\* C15 as claimed: setValue(k1.k2...kn, v) does not fail; afterwards getValue of
\* the same key returns v, the tree holds v under mapping nodes k1, ..., k(n-1)
\* (an intermediate node that was no mapping having been replaced by a fresh
\* one), and every key off that path is as it was.
C15_SetValueNestsTheValue ==
    call.op = "set" =>
        /\ ~call.threw
        /\ GetValue(json, call.key) = KeyValue(call.key, StoredText)
        /\ NestedUnder(json.kids, Split(call.key), StoredText)
        /\ OffPathUnchanged(call.before.kids, json.kids, Split(call.key))

====
